---- MODULE Spec2Model ----
(***************************************************************************)
(* A model of gropher, an in-memory directed weighted graph guarded by a   *)
(* reader-writer lock, with native JSON and NetworkX node-link JSON        *)
(* persistence.  Go maps are TLA+ functions whose DOMAIN is the key set;   *)
(* a missing key of the outer adjacency map is a nil inner map.            *)
(***************************************************************************)
EXTENDS Integers, Sequences, FiniteSets, TLC

VARIABLES nodes, edges, other, file, last, ret, pc, mu, th, hist

vars == <<nodes, edges, other, file, last, ret, pc, mu, th, hist>>

(***************************************************************************)
(* Bounds of the model.                                                    *)
(***************************************************************************)
Ids == {"A", "B"}

NumData == 1

MaxWeight == 1

MaxDocNodes == 1

MaxDocEdges == 1

(***************************************************************************)
(* Go values held in Node.Data (interface{}), by dynamic type.             *)
(***************************************************************************)
NoObj == [k \in {} |-> 0]

GoNil == [kind |-> "nil", val |-> 0, obj |-> NoObj]

GoInt(n) == [kind |-> "int", val |-> n, obj |-> NoObj]

GoFloat(n) == [kind |-> "float64", val |-> n, obj |-> NoObj]

GoString(n) == [kind |-> "string", val |-> n, obj |-> NoObj]

GoMap(o) == [kind |-> "map", val |-> 0, obj |-> o]

GoNilMap == [kind |-> "nilmap", val |-> 0, obj |-> NoObj]

GoBool(n) == [kind |-> "bool", val |-> n, obj |-> NoObj]

GoSlice(n) == [kind |-> "slice", val |-> n, obj |-> NoObj]

GoStruct(o) == [kind |-> "struct", val |-> 0, obj |-> o]

Data == {GoString(1)} \cup {GoInt(n) : n \in 1..NumData}

NaN == 0 - 1

Weights == (0..MaxWeight) \cup {NaN}

FiniteWeights == 0..MaxWeight

Node(id, data) == [ID |-> id, Data |-> data]

NilNode == [ID |-> "<nil>", Data |-> GoNil]

Edge(from, to, weight) == [From |-> from, To |-> to, Weight |-> weight]

EmptyMap == [k \in {} |-> 0]

MapPut(m, k, v) == [x \in (DOMAIN m) \cup {k} |-> IF x = k THEN v ELSE m[x]]

MapDelete(m, k) == [x \in (DOMAIN m) \ {k} |-> m[x]]

Graph(n, e) == [nodes |-> n, edges |-> e]

New == Graph(EmptyMap, EmptyMap)

(***************************************************************************)
(* Results of the operations: nil, or the error the code builds with       *)
(* fmt.Errorf, or a run-time panic.                                        *)
(***************************************************************************)
OK == "nil"

ErrNodeExists == "node with ID already exists"

ErrNodeMissing == "node with ID does not exist"

ErrSourceMissing == "source node does not exist"

ErrDestMissing == "destination node does not exist"

ErrEdgeMissing == "edge does not exist"

ErrOpen == "failed to open file"

ErrDecode == "failed to decode graph"

ErrDecodeNX == "failed to decode NetworkX JSON"

ErrCreate == "failed to create file"

ErrEncode == "failed to encode graph"

Panic == "panic"

NoDoc == [kind |-> "absent", nodes |-> <<>>, edges |-> EmptyMap, links |-> <<>>]

Call(op, id, to, err) ==
    [op |-> op, id |-> id, to |-> to, err |-> err, data |-> GoNil, weight |-> 0, doc |-> NoDoc,
     graphs |-> <<>>]

(***************************************************************************)
(* AddNode                                                                 *)
(***************************************************************************)
AddNodeOpNoAdjacency(g, id, data) ==
    IF id \in DOMAIN g.nodes
    THEN [g |-> g, err |-> ErrNodeExists]
    ELSE [g |-> Graph(MapPut(g.nodes, id, Node(id, data)), g.edges), err |-> OK]

AddNodeOpOverwrite(g, id, data) ==
    [g |-> Graph(MapPut(g.nodes, id, Node(id, data)), MapPut(g.edges, id, EmptyMap)),
     err |-> IF id \in DOMAIN g.nodes THEN ErrNodeExists ELSE OK]

AddNodeOp(g, id, data) ==
    IF id \in DOMAIN g.nodes
    THEN [g |-> g, err |-> ErrNodeExists]
    ELSE [g |-> Graph(MapPut(g.nodes, id, Node(id, data)),
                      MapPut(g.edges, id, EmptyMap)),
          err |-> OK]

AddNode(id, data) ==
    LET r == AddNodeOp(Graph(nodes, edges), id, data) IN
    /\ pc = "build"
    /\ nodes' = r.g.nodes
    /\ edges' = r.g.edges
    /\ last' = [Call("AddNode", id, "", r.err) EXCEPT !.data = data]
    /\ ret' = <<>>
    /\ UNCHANGED <<other, file, pc, mu, th, hist>>

(***************************************************************************)
(* RemoveNode                                                              *)
(***************************************************************************)
RemoveNodeOpOutgoingOnly(g, id) ==
    IF id \notin DOMAIN g.nodes
    THEN [g |-> g, err |-> ErrNodeMissing]
    ELSE [g |-> Graph(MapDelete(g.nodes, id), MapDelete(g.edges, id)), err |-> OK]

RemoveNodeOp(g, id) ==
    IF id \notin DOMAIN g.nodes
    THEN [g |-> g, err |-> ErrNodeMissing]
    ELSE [g |-> Graph(MapDelete(g.nodes, id),
                      [f \in (DOMAIN g.edges) \ {id} |-> MapDelete(g.edges[f], id)]),
          err |-> OK]

RemoveNode(id) ==
    LET r == RemoveNodeOp(Graph(nodes, edges), id) IN
    /\ pc = "build"
    /\ nodes' = r.g.nodes
    /\ edges' = r.g.edges
    /\ last' = Call("RemoveNode", id, "", r.err)
    /\ ret' = <<>>
    /\ UNCHANGED <<other, file, pc, mu, th, hist>>

(***************************************************************************)
(* AddEdge: an assignment into g.edges[from] panics when that inner map    *)
(* is nil.                                                                 *)
(***************************************************************************)
AddEdgeOpDestinationFirst(g, from, to, weight) ==
    IF to \notin DOMAIN g.nodes THEN [g |-> g, err |-> ErrDestMissing]
    ELSE IF from \notin DOMAIN g.nodes THEN [g |-> g, err |-> ErrSourceMissing]
    ELSE IF from \notin DOMAIN g.edges THEN [g |-> g, err |-> Panic]
    ELSE [g |-> Graph(g.nodes,
                      [g.edges EXCEPT ![from] = MapPut(@, to, Edge(from, to, weight))]),
          err |-> OK]

AddEdgeOpKeepExisting(g, from, to, weight) ==
    IF from \notin DOMAIN g.nodes THEN [g |-> g, err |-> ErrSourceMissing]
    ELSE IF to \notin DOMAIN g.nodes THEN [g |-> g, err |-> ErrDestMissing]
    ELSE IF from \notin DOMAIN g.edges THEN [g |-> g, err |-> Panic]
    ELSE IF to \in DOMAIN g.edges[from] THEN [g |-> g, err |-> OK]
    ELSE [g |-> Graph(g.nodes,
                      [g.edges EXCEPT ![from] = MapPut(@, to, Edge(from, to, weight))]),
          err |-> OK]

AddEdgeOp(g, from, to, weight) ==
    IF from \notin DOMAIN g.nodes THEN [g |-> g, err |-> ErrSourceMissing]
    ELSE IF to \notin DOMAIN g.nodes THEN [g |-> g, err |-> ErrDestMissing]
    ELSE IF from \notin DOMAIN g.edges THEN [g |-> g, err |-> Panic]
    ELSE [g |-> Graph(g.nodes,
                      [g.edges EXCEPT ![from] = MapPut(@, to, Edge(from, to, weight))]),
          err |-> OK]

AddEdge(from, to, weight) ==
    LET r == AddEdgeOp(Graph(nodes, edges), from, to, weight) IN
    /\ pc = "build"
    /\ nodes' = r.g.nodes
    /\ edges' = r.g.edges
    /\ last' = [Call("AddEdge", from, to, r.err) EXCEPT !.weight = weight]
    /\ ret' = <<>>
    /\ UNCHANGED <<other, file, pc, mu, th, hist>>

(***************************************************************************)
(* RemoveEdge: reading and deleting from a nil inner map are no-ops.       *)
(***************************************************************************)
HasEdge(g, from, to) == from \in DOMAIN g.edges /\ to \in DOMAIN g.edges[from]

RemoveEdgeOpEitherDirection(g, from, to) ==
    IF HasEdge(g, from, to)
    THEN [g |-> Graph(g.nodes, [g.edges EXCEPT ![from] = MapDelete(@, to)]), err |-> OK]
    ELSE IF HasEdge(g, to, from)
    THEN [g |-> Graph(g.nodes, [g.edges EXCEPT ![to] = MapDelete(@, from)]), err |-> OK]
    ELSE [g |-> g, err |-> ErrEdgeMissing]

RemoveEdgeOpWholeRow(g, from, to) ==
    IF ~HasEdge(g, from, to)
    THEN [g |-> g, err |-> ErrEdgeMissing]
    ELSE [g |-> Graph(g.nodes, [g.edges EXCEPT ![from] = EmptyMap]), err |-> OK]

RemoveEdgeOp(g, from, to) ==
    IF ~HasEdge(g, from, to)
    THEN [g |-> g, err |-> ErrEdgeMissing]
    ELSE [g |-> Graph(g.nodes, [g.edges EXCEPT ![from] = MapDelete(@, to)]),
          err |-> OK]

RemoveEdge(from, to) ==
    LET r == RemoveEdgeOp(Graph(nodes, edges), from, to) IN
    /\ pc = "build"
    /\ nodes' = r.g.nodes
    /\ edges' = r.g.edges
    /\ last' = Call("RemoveEdge", from, to, r.err)
    /\ ret' = <<>>
    /\ UNCHANGED <<other, file, pc, mu, th, hist>>

(***************************************************************************)
(* GetNode, GetNeighbors.  A map lookup of a missing key yields the nil    *)
(* pointer; a range over a map visits its keys in an unspecified order.    *)
(***************************************************************************)
Lookup(g, id) == IF id \in DOMAIN g.nodes THEN g.nodes[id] ELSE NilNode

Orders(S) == {s \in [1..Cardinality(S) -> S] : \A i, j \in 1..Cardinality(S) : s[i] = s[j] => i = j}

OutKeys(g, id) == IF id \in DOMAIN g.edges THEN DOMAIN g.edges[id] ELSE {}

GetNodeOp(g, id) ==
    IF id \notin DOMAIN g.nodes
    THEN [ret |-> <<>>, err |-> ErrNodeMissing]
    ELSE [ret |-> <<g.nodes[id]>>, err |-> OK]

GetNode(id) ==
    LET r == GetNodeOp(Graph(nodes, edges), id) IN
    /\ pc = "build"
    /\ last' = Call("GetNode", id, "", r.err)
    /\ ret' = r.ret
    /\ UNCHANGED <<nodes, edges, other, file, pc, mu, th, hist>>

GetNeighborsOp(g, id, order) ==
    IF id \notin DOMAIN g.nodes
    THEN [ret |-> <<>>, err |-> ErrNodeMissing]
    ELSE [ret |-> [i \in 1..Len(order) |-> Lookup(g, order[i])], err |-> OK]

GetNeighbors(id) ==
    \E order \in Orders(OutKeys(Graph(nodes, edges), id)) :
        LET r == GetNeighborsOp(Graph(nodes, edges), id, order) IN
        /\ pc = "build"
        /\ last' = Call("GetNeighbors", id, "", r.err)
        /\ ret' = r.ret
        /\ UNCHANGED <<nodes, edges, other, file, pc, mu, th, hist>>

(***************************************************************************)
(* JSON values as encoding/json writes and reads them.  Decoding into an   *)
(* interface{} yields float64 for every number and map[string]interface{}  *)
(* for every object.                                                       *)
(***************************************************************************)
JNull == [type |-> "null", val |-> 0, obj |-> NoObj]

JNum(n) == [type |-> "number", val |-> n, obj |-> NoObj]

JStr(n) == [type |-> "string", val |-> n, obj |-> NoObj]

JObj(o) == [type |-> "object", val |-> 0, obj |-> o]

JBool(n) == [type |-> "bool", val |-> n, obj |-> NoObj]

JArr(n) == [type |-> "array", val |-> n, obj |-> NoObj]

JAbsent == [type |-> "absent", val |-> 0, obj |-> NoObj]

RECURSIVE DecodeValue(_)
DecodeValue(j) ==
    CASE j.type \in {"null", "absent"} -> GoNil
      [] j.type = "number" -> GoFloat(j.val)
      [] j.type = "string" -> GoString(j.val)
      [] j.type = "bool" -> GoBool(j.val)
      [] j.type = "array" -> GoSlice(j.val)
      [] OTHER -> GoMap([k \in DOMAIN j.obj |-> DecodeValue(j.obj[k])])

RECURSIVE EncodeValue(_)
EncodeValue(d) ==
    CASE d.kind \in {"nil", "nilmap"} -> JNull
      [] d.kind \in {"int", "float64"} -> JNum(d.val)
      [] d.kind = "string" -> JStr(d.val)
      [] d.kind = "bool" -> JBool(d.val)
      [] d.kind = "slice" -> JArr(d.val)
      [] OTHER -> JObj([k \in DOMAIN d.obj |-> EncodeValue(d.obj[k])])

(***************************************************************************)
(* File contents: no file at the path, bytes that do not decode, a native  *)
(* document {"nodes": [...], "edges": {from: {to: edge}}}, or a node-link  *)
(* document {"Nodes": [...], "links": [...]}.  An entry of "nodes" may be  *)
(* the JSON null, which decodes to a nil *Node.                            *)
(***************************************************************************)
Absent == NoDoc

Invalid == [kind |-> "invalid", nodes |-> <<>>, edges |-> EmptyMap, links |-> <<>>]

NativeDoc(ns, es) == [kind |-> "native", nodes |-> ns, edges |-> es, links |-> <<>>]

NXDoc(ns, ls) == [kind |-> "nx", nodes |-> ns, edges |-> EmptyMap, links |-> ls]

JNode(id, data) == [null |-> FALSE, id |-> id, data |-> data]

NullEntry == [null |-> TRUE, id |-> "", data |-> JNull]

Link(source, target, weight) == [source |-> source, target |-> target, weight |-> weight]

Omitted == 0 - 2

MarshalNXLink(l) == Link(l.source, l.target, IF l.weight = 0 THEN Omitted ELSE l.weight)

UnmarshalWeight(w) == IF w = Omitted THEN 0 ELSE w

LastIndex(s, k, P(_)) == CHOOSE i \in 1..k : P(s[i]) /\ \A j \in (i+1)..k : ~P(s[j])

(***************************************************************************)
(* LoadFromFile                                                            *)
(***************************************************************************)
RestoreNodes(ns, k) ==
    [id \in {ns[i].id : i \in 1..k} |->
        LET i == LastIndex(ns, k, LAMBDA e : e.id = id)
        IN  Node(id, DecodeValue(ns[i].data))]

NullAt(ns) == {i \in 1..Len(ns) : ns[i].null}

Min(S) == CHOOSE x \in S : \A y \in S : x <= y

NilFroms(content, keys) ==
    {f \in DOMAIN content.edges : f \notin keys /\ DOMAIN content.edges[f] # {}}

LoadFromFileOpClearFirst(g, content, done) ==
    IF content.kind = "absent" THEN [g |-> g, err |-> ErrOpen]
    ELSE IF content.kind # "native" THEN [g |-> New, err |-> ErrDecode]
    ELSE IF NullAt(content.nodes) # {}
    THEN LET n1 == RestoreNodes(content.nodes, Min(NullAt(content.nodes)) - 1)
         IN  [g |-> Graph(n1, [id \in DOMAIN n1 |-> EmptyMap]), err |-> Panic]
    ELSE LET n1 == RestoreNodes(content.nodes, Len(content.nodes))
             stop == NilFroms(content, DOMAIN n1) # {}
             e1 == [id \in DOMAIN n1 |->
                      IF id \in DOMAIN content.edges /\ (stop => id \in done)
                      THEN content.edges[id] ELSE EmptyMap]
         IN  [g |-> Graph(n1, e1), err |-> IF stop THEN Panic ELSE OK]

LoadFromFileOpNoClear(g, content, done) ==
    IF content.kind = "absent" THEN [g |-> g, err |-> ErrOpen]
    ELSE IF content.kind # "native" THEN [g |-> g, err |-> ErrDecode]
    ELSE IF NullAt(content.nodes) # {}
    THEN LET n1 == RestoreNodes(content.nodes, Min(NullAt(content.nodes)) - 1)
         IN  [g |-> Graph(n1, [id \in DOMAIN n1 |-> EmptyMap]), err |-> Panic]
    ELSE LET n1 == RestoreNodes(content.nodes, Len(content.nodes))
             stop == NilFroms(content, DOMAIN n1) # {}
             e1 == [id \in DOMAIN n1 |->
                      IF id \in DOMAIN content.edges /\ (stop => id \in done)
                      THEN content.edges[id] ELSE EmptyMap]
         IN  [g |-> Graph([id \in (DOMAIN g.nodes) \cup (DOMAIN n1) |->
                              IF id \in DOMAIN n1 THEN n1[id] ELSE g.nodes[id]],
                          [id \in (DOMAIN g.edges) \cup (DOMAIN e1) |->
                              IF id \in DOMAIN e1 THEN e1[id] ELSE g.edges[id]]),
              err |-> IF stop THEN Panic ELSE OK]

LoadFromFileOp(g, content, done) ==
    IF content.kind = "absent" THEN [g |-> g, err |-> ErrOpen]
    ELSE IF content.kind # "native" THEN [g |-> g, err |-> ErrDecode]
    ELSE IF NullAt(content.nodes) # {}
    THEN LET n1 == RestoreNodes(content.nodes, Min(NullAt(content.nodes)) - 1)
         IN  [g |-> Graph(n1, [id \in DOMAIN n1 |-> EmptyMap]), err |-> Panic]
    ELSE LET n1 == RestoreNodes(content.nodes, Len(content.nodes))
             stop == NilFroms(content, DOMAIN n1) # {}
             e1 == [id \in DOMAIN n1 |->
                      IF id \in DOMAIN content.edges /\ (stop => id \in done)
                      THEN content.edges[id] ELSE EmptyMap]
         IN  [g |-> Graph(n1, e1), err |-> IF stop THEN Panic ELSE OK]

DoneChoices(content) ==
    IF content.kind = "native" /\ NullAt(content.nodes) = {}
       /\ NilFroms(content, {e.id : e \in {content.nodes[i] : i \in 1..Len(content.nodes)}}) # {}
    THEN SUBSET ((DOMAIN content.edges) \cap {content.nodes[i].id : i \in 1..Len(content.nodes)})
    ELSE {{}}

LoadFromFile(content) ==
    \E done \in DoneChoices(content) :
        LET r == LoadFromFileOp(Graph(nodes, edges), content, done) IN
        /\ pc = "build"
        /\ nodes' = r.g.nodes
        /\ edges' = r.g.edges
        /\ last' = [Call("LoadFromFile", "", "", r.err) EXCEPT !.doc = content]
        /\ ret' = <<>>
        /\ UNCHANGED <<other, file, pc, mu, th, hist>>

(***************************************************************************)
(* LoadNetworkXJSON.  A node's data decodes into a map (nil when absent);  *)
(* a map with the single key "value" is replaced by that value.            *)
(***************************************************************************)
UnwrapNoLengthTest(data) ==
    IF data.type # "object" THEN GoNilMap
    ELSE IF "value" \in DOMAIN data.obj THEN DecodeValue(data.obj["value"])
    ELSE DecodeValue(data)

Unwrap(data) ==
    IF data.type # "object" THEN GoNilMap
    ELSE IF DOMAIN data.obj = {"value"} THEN DecodeValue(data.obj["value"])
    ELSE DecodeValue(data)

NXNodes(ns) ==
    [id \in {ns[i].id : i \in 1..Len(ns)} |->
        LET i == LastIndex(ns, Len(ns), LAMBDA e : e.id = id)
        IN  Node(id, Unwrap(ns[i].data))]

NilSourceAt(ls, keys) == {i \in 1..Len(ls) : ls[i].source \notin keys}

NXEdges(keys, ls, k) ==
    [f \in keys |->
        [t \in {ls[i].target : i \in {j \in 1..k : ls[j].source = f}} |->
            LET i == LastIndex(ls, k, LAMBDA l : l.source = f /\ l.target = t)
            IN  Edge(f, t, UnmarshalWeight(ls[i].weight))]]

NotAMap(ns) == {i \in 1..Len(ns) : ns[i].data.type \notin {"object", "null", "absent"}}

LoadNetworkXJSONOp(g, content) ==
    IF content.kind = "absent" THEN [g |-> g, err |-> ErrOpen]
    ELSE IF content.kind # "nx" \/ NotAMap(content.nodes) # {} THEN [g |-> g, err |-> ErrDecodeNX]
    ELSE LET n1 == NXNodes(content.nodes)
             bad == NilSourceAt(content.links, DOMAIN n1)
         IN  IF bad = {}
             THEN [g |-> Graph(n1, NXEdges(DOMAIN n1, content.links, Len(content.links))),
                   err |-> OK]
             ELSE [g |-> Graph(n1, NXEdges(DOMAIN n1, content.links, Min(bad) - 1)),
                   err |-> Panic]

LoadNetworkXJSON(content) ==
    LET r == LoadNetworkXJSONOp(Graph(nodes, edges), content) IN
    /\ pc = "build"
    /\ nodes' = r.g.nodes
    /\ edges' = r.g.edges
    /\ last' = [Call("LoadNetworkXJSON", "", "", r.err) EXCEPT !.doc = content]
    /\ ret' = <<>>
    /\ UNCHANGED <<other, file, pc, mu, th, hist>>

(***************************************************************************)
(* The documents the loads are run on.                                     *)
(***************************************************************************)
SeqsUpTo(S, n) == UNION {[1..k -> S] : k \in 0..n}

DocData == {JStr(1)} \cup {JNum(n) : n \in 1..NumData}

NodeEntries == {NullEntry} \cup {JNode(id, d) : id \in Ids, d \in DocData}

EdgeEntries == Ids \X Ids \X FiniteWeights

EdgeSets ==
    {E \in SUBSET EdgeEntries :
        /\ Cardinality(E) <= MaxDocEdges
        /\ \A a, b \in E : (a[1] = b[1] /\ a[2] = b[2]) => a = b}

EdgeMap(E) ==
    [f \in {e[1] : e \in E} |->
        [t \in {e[2] : e \in {x \in E : x[1] = f}} |->
            LET e == CHOOSE x \in E : x[1] = f /\ x[2] = t
            IN  Edge(f, t, e[3])]]

NativeDocs ==
    {NativeDoc(ns, EdgeMap(E)) : ns \in SeqsUpTo(NodeEntries, MaxDocNodes), E \in EdgeSets}

NXNodeEntries == {JNode(id, JObj([k \in {"value"} |-> d])) : id \in Ids, d \in DocData}

Links == {Link(l[1], l[2], l[3]) : l \in Ids \X Ids \X FiniteWeights}

NXDocs ==
    {NXDoc(ns, ls) : ns \in SeqsUpTo(NXNodeEntries, MaxDocNodes), ls \in SeqsUpTo(Links, MaxDocEdges)}

(***************************************************************************)
(* Goroutines calling into one Graph, and its sync.RWMutex: the goroutine  *)
(* holding the write lock, and the goroutines holding the read lock.       *)
(***************************************************************************)
Threads == {"t1", "t2", "t3"}

NoCall == [op |-> "none", id |-> "", to |-> "", data |-> GoNil, weight |-> 0, doc |-> NoDoc]

Idle == [pc |-> "idle", call |-> NoCall, g0 |-> New, local |-> <<>>, ret |-> <<>>, err |-> OK]

Unlocked == [writer |-> "none", readers |-> {}]

Init ==
    /\ mu = Unlocked
    /\ th = [t \in Threads |-> Idle]
    /\ hist = {}
    /\ nodes = New.nodes
    /\ edges = New.edges
    /\ other = New
    /\ file = Absent
    /\ last = Call("New", "", "", OK)
    /\ ret = <<>>
    /\ pc = "build"

Next ==
    \/ \E id \in Ids, data \in Data : AddNode(id, data)
    \/ \E id \in Ids : RemoveNode(id)
    \/ \E from \in Ids, to \in Ids, weight \in FiniteWeights : AddEdge(from, to, weight)
    \/ \E from \in Ids, to \in Ids : RemoveEdge(from, to)
    \/ \E id \in Ids : GetNode(id)
    \/ \E id \in Ids : GetNeighbors(id)
    \/ \E content \in NativeDocs \cup {Absent, Invalid} : LoadFromFile(content)
    \/ \E content \in NXDocs \cup {Absent, Invalid} : LoadNetworkXJSON(content)

Spec == Init /\ [][Next]_vars

(***************************************************************************)
(* SaveToFile.  os.Create truncates the file before the encoder runs;      *)
(* encoding/json refuses NaN and the infinities, and then nothing is       *)
(* written.  The node list is written in map iteration order.              *)
(***************************************************************************)
Encodable(g) ==
    \A f \in DOMAIN g.edges : \A t \in DOMAIN g.edges[f] : g.edges[f][t].Weight # NaN

EncodeGraph(g, order) ==
    NativeDoc([i \in 1..Len(order) |-> JNode(g.nodes[order[i]].ID, EncodeValue(g.nodes[order[i]].Data))],
              g.edges)

SaveToFileOp(g, old, writable, order) ==
    IF ~writable THEN [file |-> old, err |-> ErrCreate]
    ELSE IF ~Encodable(g) THEN [file |-> Invalid, err |-> ErrEncode]
    ELSE [file |-> EncodeGraph(g, order), err |-> OK]

SaveToFile(writable) ==
    \E order \in Orders(DOMAIN nodes) :
        LET r == SaveToFileOp(Graph(nodes, edges), file, writable, order) IN
        /\ pc = "build"
        /\ file' = r.file
        /\ last' = Call("SaveToFile", "", "", r.err)
        /\ ret' = <<>>
        /\ pc' = "saved"
        /\ UNCHANGED <<nodes, edges, other, mu, th, hist>>

(***************************************************************************)
(* A second Graph: it is populated by AddNode and AddEdge, then loads the  *)
(* file the first Graph saved.                                             *)
(***************************************************************************)
OtherAddNode(id, data) ==
    LET r == AddNodeOp(other, id, data) IN
    /\ pc = "build"
    /\ other' = r.g
    /\ last' = [Call("other.AddNode", id, "", r.err) EXCEPT !.data = data]
    /\ ret' = <<>>
    /\ UNCHANGED <<nodes, edges, file, pc, mu, th, hist>>

OtherLoadFromFile ==
    \E done \in DoneChoices(file) :
        LET r == LoadFromFileOp(other, file, done) IN
        /\ pc = "saved"
        /\ other' = r.g
        /\ last' = [Call("other.LoadFromFile", "", "", r.err) EXCEPT !.doc = file]
        /\ ret' = <<>>
        /\ pc' = "loaded"
        /\ UNCHANGED <<nodes, edges, file, mu, th, hist>>

NextRoundTrip ==
    \/ \E id \in Ids, data \in Data : AddNode(id, data)
    \/ \E id \in Ids : RemoveNode(id)
    \/ \E from \in Ids, to \in Ids, weight \in Weights : AddEdge(from, to, weight)
    \/ \E from \in Ids, to \in Ids : RemoveEdge(from, to)
    \/ \E id \in Ids, data \in Data : OtherAddNode(id, data)
    \/ SaveToFile(TRUE)
    \/ OtherLoadFromFile

SpecRoundTrip == Init /\ [][NextRoundTrip]_vars

(***************************************************************************)
(* SaveNetworkXJSON.  Data that is not a map[string]interface{} goes under *)
(* the key "value"; the data field is tagged omitempty, so a nil or empty  *)
(* map is left out of the node entry.  Nodes and links are written in map  *)
(* iteration order.                                                        *)
(***************************************************************************)
ErrEncodeNX == "failed to encode NetworkX JSON"

Obj1(k, v) == [x \in {k} |-> v]

Obj2(k1, v1, k2, v2) == [x \in {k1, k2} |-> IF x = k1 THEN v1 ELSE v2]

WrapDataNilAsMap(d) ==
    IF d.kind \in {"map", "nilmap", "nil"} THEN d ELSE GoMap([k \in {"value"} |-> d])

WrapData(d) ==
    IF d.kind \in {"map", "nilmap"} THEN d ELSE GoMap([k \in {"value"} |-> d])

NetworkXNode(id, d) == [ID |-> id, Data |-> WrapData(d)]

MarshalNXNode(n) ==
    JNode(n.ID, IF DOMAIN n.Data.obj = {} THEN JAbsent ELSE EncodeValue(n.Data))

NetworkXLink(from, to, edge) == Link(from, to, edge.Weight)

ConvertNodes(g, norder) ==
    [i \in 1..Len(norder) |-> NetworkXNode(norder[i], g.nodes[norder[i]].Data)]

ConvertLinks(g, lorder) ==
    [i \in 1..Len(lorder) |->
        NetworkXLink(lorder[i][1], lorder[i][2], g.edges[lorder[i][1]][lorder[i][2]])]

EdgeKeys(g) == UNION {{<<f, t>> : t \in DOMAIN g.edges[f]} : f \in DOMAIN g.edges}

MarshalNX(ns, ls) ==
    NXDoc([i \in 1..Len(ns) |-> MarshalNXNode(ns[i])], [i \in 1..Len(ls) |-> MarshalNXLink(ls[i])])

NetworkXJSON(directed, ns, ls) ==
    [Directed |-> directed, Multigraph |-> FALSE, Graph |-> NoObj, Nodes |-> ns, Links |-> ls]

BuildNX(g, norder, lorder) ==
    NetworkXJSON(TRUE, ConvertNodes(g, norder), ConvertLinks(g, lorder))

SaveNetworkXJSONOp(g, old, writable, norder, lorder) ==
    IF ~writable THEN [file |-> old, err |-> ErrCreate]
    ELSE IF ~Encodable(g) THEN [file |-> Invalid, err |-> ErrEncodeNX]
    ELSE [file |-> MarshalNX(BuildNX(g, norder, lorder).Nodes, BuildNX(g, norder, lorder).Links),
          err |-> OK]

SaveNetworkXJSONWrapInPlace(writable) ==
    \E norder \in Orders(DOMAIN nodes), lorder \in Orders(EdgeKeys(Graph(nodes, edges))) :
        LET r == SaveNetworkXJSONOp(Graph(nodes, edges), file, writable, norder, lorder) IN
        /\ pc = "build"
        /\ file' = r.file
        /\ last' = Call("SaveNetworkXJSON", "", "", r.err)
        /\ ret' = <<>>
        /\ pc' = "saved"
        /\ nodes' = [id \in DOMAIN nodes |-> Node(id, WrapData(nodes[id].Data))]
        /\ UNCHANGED <<edges, other, mu, th, hist>>

SaveNetworkXJSON(writable) ==
    \E norder \in Orders(DOMAIN nodes), lorder \in Orders(EdgeKeys(Graph(nodes, edges))) :
        LET r == SaveNetworkXJSONOp(Graph(nodes, edges), file, writable, norder, lorder) IN
        /\ pc = "build"
        /\ file' = r.file
        /\ last' = Call("SaveNetworkXJSON", "", "", r.err)
        /\ ret' = <<>>
        /\ pc' = "saved"
        /\ UNCHANGED <<nodes, edges, other, mu, th, hist>>

OtherLoadNetworkXJSON ==
    LET r == LoadNetworkXJSONOp(other, file) IN
    /\ pc = "saved"
    /\ other' = r.g
    /\ last' = [Call("other.LoadNetworkXJSON", "", "", r.err) EXCEPT !.doc = file]
    /\ ret' = <<>>
    /\ pc' = "loaded"
    /\ UNCHANGED <<nodes, edges, file, mu, th, hist>>

(***************************************************************************)
(* Vertex data and node-link documents for the interop operations.         *)
(***************************************************************************)
InteropData ==
    {GoNil, GoString(1), GoBool(1), GoSlice(1), GoMap(NoObj),
     GoMap(Obj1("value", GoInt(1))), GoMap(Obj2("value", GoInt(1), "name", GoString(1))),
     GoStruct(Obj1("name", GoString(1)))}
    \cup {GoInt(n) : n \in 1..NumData}

InteropDocData ==
    {JAbsent, JObj(NoObj), JObj(Obj1("value", JNull)), JObj(Obj1("name", JStr(1))),
     JObj(Obj2("value", JStr(1), "name", JStr(1))),
     JObj(Obj1("value", JObj(Obj1("value", JStr(1))))), JNum(1)}
    \cup {JObj(Obj1("value", JNum(n))) : n \in 1..NumData}

InteropDocs ==
    {NXDoc(ns, <<>>) :
        ns \in SeqsUpTo({JNode(id, d) : id \in Ids, d \in InteropDocData}, MaxDocNodes)}

NextInterop ==
    \/ \E id \in Ids, data \in InteropData : AddNode(id, data)
    \/ \E content \in InteropDocs \cup {Absent, Invalid} : LoadNetworkXJSON(content)
    \/ SaveNetworkXJSON(TRUE)
    \/ OtherLoadNetworkXJSON

SpecInterop == Init /\ [][NextInterop]_vars

(***************************************************************************)
(* ConvertToNetworkX, SaveGraphsToFile, LoadGraphsFromFile.  A *Graph      *)
(* argument may be nil.  The collection file is {"graphs": [...]} of       *)
(* node-link documents; a JSON object without that key decodes to an empty *)
(* collection.                                                             *)
(***************************************************************************)
MaxGraphs == 2

Ptr(g) == [nil |-> FALSE, g |-> g]

NilPtr == [nil |-> TRUE, g |-> New]

ErrNilGraph == "nil graph at index"

ErrNilGraphProvided == "nil graph provided"

ErrEncodeGraphs == "failed to encode graphs"

ErrDecodeGraphs == "failed to decode graphs"

CollectionDoc(ds) ==
    [kind |-> "collection", nodes |-> <<>>, edges |-> EmptyMap, links |-> <<>>, graphs |-> ds]

ConvertToNetworkXOp(p, norder, lorder) ==
    IF p.nil THEN [ret |-> NetworkXJSON(FALSE, <<>>, <<>>), err |-> ErrNilGraphProvided]
    ELSE [ret |-> NetworkXJSON(TRUE,
                               [i \in 1..Len(norder) |->
                                   LET d == p.g.nodes[norder[i]].Data
                                   IN  [ID |-> norder[i],
                                        Data |-> IF d.kind \in {"map", "nilmap"} THEN d
                                                 ELSE GoMap(Obj1("value", d))]],
                               [i \in 1..Len(lorder) |->
                                   Link(lorder[i][1], lorder[i][2],
                                        p.g.edges[lorder[i][1]][lorder[i][2]].Weight)]),
          err |-> OK]

NilAt(ps) == {i \in 1..Len(ps) : ps[i].nil}

RECURSIVE OrderChoices(_)

OrderChoices(ps) ==
    IF ps = <<>> THEN {<<>>}
    ELSE LET p == ps[Len(ps)]
         IN  {Append(f, o) : f \in OrderChoices(SubSeq(ps, 1, Len(ps) - 1)),
                             o \in Orders(DOMAIN p.g.nodes) \X Orders(EdgeKeys(p.g))}

MarshalCollection(nxs) ==
    CollectionDoc([i \in 1..Len(nxs) |-> MarshalNX(nxs[i].Nodes, nxs[i].Links)])

SaveGraphsToFileOpCreateFirst(ps, old, writable, orders) ==
    IF ~writable THEN [file |-> old, err |-> ErrCreate]
    ELSE IF NilAt(ps) # {} THEN [file |-> Invalid, err |-> ErrNilGraph]
    ELSE IF \E i \in 1..Len(ps) : ~Encodable(ps[i].g)
    THEN [file |-> Invalid, err |-> ErrEncodeGraphs]
    ELSE [file |-> MarshalCollection([i \in 1..Len(ps) |->
                       ConvertToNetworkXOp(ps[i], orders[i][1], orders[i][2]).ret]),
          err |-> OK]

SaveGraphsToFileOp(ps, old, writable, orders) ==
    IF NilAt(ps) # {} THEN [file |-> old, err |-> ErrNilGraph]
    ELSE IF ~writable THEN [file |-> old, err |-> ErrCreate]
    ELSE IF \E i \in 1..Len(ps) : ~Encodable(ps[i].g)
    THEN [file |-> Invalid, err |-> ErrEncodeGraphs]
    ELSE [file |-> MarshalCollection([i \in 1..Len(ps) |->
                       ConvertToNetworkXOp(ps[i], orders[i][1], orders[i][2]).ret]),
          err |-> OK]

GraphFromNXKeepWrapper(nx) ==
    LET n1 == [id \in {nx.nodes[i].id : i \in 1..Len(nx.nodes)} |->
                  LET i == LastIndex(nx.nodes, Len(nx.nodes), LAMBDA e : e.id = id)
                      d == nx.nodes[i].data
                  IN  Node(id, IF d.type # "object" THEN GoNilMap ELSE DecodeValue(d))]
        bad == NilSourceAt(nx.links, DOMAIN n1)
    IN  IF bad = {}
        THEN [g |-> Graph(n1, NXEdges(DOMAIN n1, nx.links, Len(nx.links))), err |-> OK]
        ELSE [g |-> Graph(n1, NXEdges(DOMAIN n1, nx.links, Min(bad) - 1)), err |-> Panic]

GraphFromNX(nx) ==
    LET n1 == [id \in {nx.nodes[i].id : i \in 1..Len(nx.nodes)} |->
                  LET i == LastIndex(nx.nodes, Len(nx.nodes), LAMBDA e : e.id = id)
                      d == nx.nodes[i].data
                  IN  Node(id, IF d.type # "object" THEN GoNilMap
                               ELSE IF DOMAIN d.obj = {"value"} THEN DecodeValue(d.obj["value"])
                               ELSE DecodeValue(d))]
        bad == NilSourceAt(nx.links, DOMAIN n1)
    IN  IF bad = {}
        THEN [g |-> Graph(n1, NXEdges(DOMAIN n1, nx.links, Len(nx.links))), err |-> OK]
        ELSE [g |-> Graph(n1, NXEdges(DOMAIN n1, nx.links, Min(bad) - 1)), err |-> Panic]

LoadGraphsFromFileOp(content) ==
    IF content.kind = "absent" THEN [ret |-> <<>>, err |-> ErrOpen]
    ELSE IF content.kind = "invalid" THEN [ret |-> <<>>, err |-> ErrDecodeGraphs]
    ELSE IF content.kind # "collection" THEN [ret |-> <<>>, err |-> OK]
    ELSE IF \E i \in 1..Len(content.graphs) : NotAMap(content.graphs[i].nodes) # {}
    THEN [ret |-> <<>>, err |-> ErrDecodeGraphs]
    ELSE IF \E i \in 1..Len(content.graphs) : GraphFromNX(content.graphs[i]).err = Panic
    THEN [ret |-> <<>>, err |-> Panic]
    ELSE [ret |-> [i \in 1..Len(content.graphs) |-> GraphFromNX(content.graphs[i]).g],
          err |-> OK]

Refs == {"g", "other", "nil"}

PtrOf(ref) ==
    CASE ref = "g" -> Ptr(Graph(nodes, edges))
      [] ref = "other" -> Ptr(other)
      [] OTHER -> NilPtr

ConvertToNetworkX(ref) ==
    \E norder \in Orders(DOMAIN PtrOf(ref).g.nodes), lorder \in Orders(EdgeKeys(PtrOf(ref).g)) :
        LET r == ConvertToNetworkXOp(PtrOf(ref), norder, lorder) IN
        /\ pc = "build"
        /\ last' = Call("ConvertToNetworkX", ref, "", r.err)
        /\ ret' = r.ret
        /\ UNCHANGED <<nodes, edges, other, file, pc, mu, th, hist>>

SaveGraphsToFile(refs, writable) ==
    \E orders \in OrderChoices([i \in 1..Len(refs) |-> PtrOf(refs[i])]) :
        LET r == SaveGraphsToFileOp([i \in 1..Len(refs) |-> PtrOf(refs[i])], file, writable, orders) IN
        /\ pc = "build"
        /\ file' = r.file
        /\ last' = [Call("SaveGraphsToFile", "", "", r.err) EXCEPT !.graphs = refs]
        /\ ret' = <<>>
        /\ pc' = "saved"
        /\ UNCHANGED <<nodes, edges, other, mu, th, hist>>

LoadGraphsFromFile(content) ==
    LET r == LoadGraphsFromFileOp(content) IN
    /\ pc = "build"
    /\ last' = [Call("LoadGraphsFromFile", "", "", r.err) EXCEPT !.doc = content]
    /\ ret' = r.ret
    /\ UNCHANGED <<nodes, edges, other, file, pc, mu, th, hist>>

LoadSavedGraphs ==
    LET r == LoadGraphsFromFileOp(file) IN
    /\ pc = "saved"
    /\ last' = [Call("LoadGraphsFromFile", "", "", r.err) EXCEPT !.doc = file]
    /\ ret' = r.ret
    /\ pc' = "loaded"
    /\ UNCHANGED <<nodes, edges, other, file, mu, th, hist>>

(***************************************************************************)
(* Concurrent calls.  A goroutine makes one call in steps: it takes the    *)
(* lock the method takes (Lock, RLock, or none), makes its first access to *)
(* the tables, makes the remaining ones, and releases the lock in the      *)
(* deferred unlock.  Two accesses to the maps of which one is a write and  *)
(* which no lock orders are a data race: the runtime may stop the program  *)
(* ("concurrent map read and map write") or let the access go through.  An *)
(* unrecovered panic runs the deferred unlock and then ends the program.   *)
(***************************************************************************)
Mutators == {"AddNode", "RemoveNode", "AddEdge", "RemoveEdge", "LoadFromFile", "LoadNetworkXJSON"}

Encoders == {"SaveNetworkXJSON", "ConvertToNetworkX", "SaveGraphsToFile"}

Readers == {"GetNode", "GetNeighbors", "SaveToFile"}

LockKindRemoveNodeShared(op) ==
    CASE op = "RemoveNode" -> "read"
      [] op \in Mutators -> "write"
      [] op \in Readers \cup {"SaveNetworkXJSON", "SaveGraphsToFile"} -> "read"
      [] OTHER -> "none"

LockKindNeighborsUnlocked(op) ==
    CASE op \in Mutators -> "write"
      [] op = "GetNeighbors" -> "none"
      [] op \in Readers \cup {"SaveNetworkXJSON", "SaveGraphsToFile"} -> "read"
      [] OTHER -> "none"

LockKindAddNodeShared(op) ==
    CASE op = "AddNode" -> "read"
      [] op \in Mutators -> "write"
      [] op \in Readers \cup {"SaveNetworkXJSON", "SaveGraphsToFile"} -> "read"
      [] OTHER -> "none"

LockKindAddNodeUnlocked(op) ==
    CASE op = "AddNode" -> "none"
      [] op \in Mutators -> "write"
      [] op \in Readers \cup {"SaveNetworkXJSON", "SaveGraphsToFile"} -> "read"
      [] OTHER -> "none"

LockKind(op) ==
    CASE op \in Mutators -> "write"
      [] op \in Readers \cup {"SaveNetworkXJSON", "SaveGraphsToFile"} -> "read"
      [] OTHER -> "none"

Fin(g, r, err) == [g |-> g, local |-> <<>>, ret |-> r, err |-> err, fin |-> TRUE]

More(g, local) == [g |-> g, local |-> local, ret |-> <<>>, err |-> OK, fin |-> FALSE]

FirstKeys(g, c) ==
    CASE c.op = "GetNeighbors" -> OutKeys(g, c.id)
      [] c.op \in Encoders \cup {"SaveToFile"} -> DOMAIN g.nodes
      [] OTHER -> {}

FirstOp(g, c, order) ==
    CASE c.op = "AddNode" ->
            IF c.id \in DOMAIN g.nodes THEN Fin(g, <<>>, ErrNodeExists)
            ELSE More(Graph(MapPut(g.nodes, c.id, Node(c.id, c.data)), g.edges), <<>>)
      [] c.op = "RemoveNode" ->
            IF c.id \notin DOMAIN g.nodes THEN Fin(g, <<>>, ErrNodeMissing)
            ELSE More(Graph(g.nodes,
                            [f \in (DOMAIN g.edges) \ {c.id} |-> MapDelete(g.edges[f], c.id)]),
                      <<>>)
      [] c.op = "AddEdge" ->
            IF c.id \notin DOMAIN g.nodes THEN Fin(g, <<>>, ErrSourceMissing)
            ELSE IF c.to \notin DOMAIN g.nodes THEN Fin(g, <<>>, ErrDestMissing)
            ELSE More(g, <<>>)
      [] c.op = "RemoveEdge" ->
            IF ~HasEdge(g, c.id, c.to) THEN Fin(g, <<>>, ErrEdgeMissing) ELSE More(g, <<>>)
      [] c.op = "LoadFromFile" ->
            IF c.doc.kind = "absent" THEN Fin(g, <<>>, ErrOpen)
            ELSE IF c.doc.kind # "native" THEN Fin(g, <<>>, ErrDecode)
            ELSE More(New, <<>>)
      [] c.op = "LoadNetworkXJSON" ->
            IF c.doc.kind = "absent" THEN Fin(g, <<>>, ErrOpen)
            ELSE IF c.doc.kind # "nx" \/ NotAMap(c.doc.nodes) # {} THEN Fin(g, <<>>, ErrDecodeNX)
            ELSE More(New, <<>>)
      [] c.op = "GetNode" -> Fin(g, GetNodeOp(g, c.id).ret, GetNodeOp(g, c.id).err)
      [] c.op = "GetNeighbors" ->
            IF c.id \notin DOMAIN g.nodes THEN Fin(g, <<>>, ErrNodeMissing) ELSE More(g, order)
      [] c.op = "SaveToFile" -> More(g, EncodeGraph(g, order).nodes)
      [] OTHER -> More(g, ConvertNodes(g, order))

SecondChoices(g, c) ==
    CASE c.op = "LoadFromFile" -> DoneChoices(c.doc)
      [] c.op \in Encoders -> Orders(EdgeKeys(g))
      [] OTHER -> {<<>>}

SecondOp(g, c, local, ch) ==
    CASE c.op = "AddNode" ->
            [g |-> Graph(g.nodes, MapPut(g.edges, c.id, EmptyMap)), ret |-> <<>>, err |-> OK]
      [] c.op = "RemoveNode" ->
            [g |-> Graph(MapDelete(g.nodes, c.id), g.edges), ret |-> <<>>, err |-> OK]
      [] c.op = "AddEdge" ->
            IF c.id \notin DOMAIN g.edges THEN [g |-> g, ret |-> <<>>, err |-> Panic]
            ELSE [g |-> Graph(g.nodes,
                              [g.edges EXCEPT ![c.id] = MapPut(@, c.to, Edge(c.id, c.to, c.weight))]),
                  ret |-> <<>>, err |-> OK]
      [] c.op = "RemoveEdge" ->
            IF c.id \notin DOMAIN g.edges THEN [g |-> g, ret |-> <<>>, err |-> OK]
            ELSE [g |-> Graph(g.nodes, [g.edges EXCEPT ![c.id] = MapDelete(@, c.to)]),
                  ret |-> <<>>, err |-> OK]
      [] c.op = "LoadFromFile" ->
            [g |-> LoadFromFileOp(g, c.doc, ch).g, ret |-> <<>>,
             err |-> LoadFromFileOp(g, c.doc, ch).err]
      [] c.op = "LoadNetworkXJSON" ->
            [g |-> LoadNetworkXJSONOp(g, c.doc).g, ret |-> <<>>,
             err |-> LoadNetworkXJSONOp(g, c.doc).err]
      [] c.op = "GetNeighbors" ->
            [g |-> g, ret |-> [i \in 1..Len(local) |-> Lookup(g, local[i])], err |-> OK]
      [] c.op = "SaveToFile" ->
            IF ~Encodable(g) THEN [g |-> g, ret |-> Invalid, err |-> ErrEncode]
            ELSE [g |-> g, ret |-> NativeDoc(local, g.edges), err |-> OK]
      [] c.op = "SaveNetworkXJSON" ->
            IF ~Encodable(g) THEN [g |-> g, ret |-> Invalid, err |-> ErrEncodeNX]
            ELSE [g |-> g, ret |-> MarshalNX(local, ConvertLinks(g, ch)), err |-> OK]
      [] OTHER ->
            [g |-> g, ret |-> MarshalNX(local, ConvertLinks(g, ch)), err |-> OK]

MultiDoc(nx) ==
    IF \E i \in 1..Len(nx.links) : nx.links[i].weight = NaN THEN Invalid
    ELSE CollectionDoc(<<nx>>)

Alive == \A t \in Threads : th[t].pc # "crashed"

Racing(t) ==
    \E u \in Threads \ {t} :
        /\ th[u].pc \in {"first", "second"}
        /\ th[t].call.op \in Mutators \/ th[u].call.op \in Mutators

Outcomes(t) == IF Racing(t) THEN {"run", "fatal"} ELSE {"run"}

After(t) == IF LockKind(th[t].call.op) = "none" THEN "done" ELSE "release"

Start ==
    /\ pc = "build"
    /\ pc' = "run"
    /\ last' = Call("Start", "", "", OK)
    /\ ret' = <<>>
    /\ hist' = {Graph(nodes, edges)}
    /\ UNCHANGED <<nodes, edges, other, file, mu, th>>

Invoke(t, c) ==
    /\ pc = "run"
    /\ Alive
    /\ th[t].pc = "idle"
    /\ th' = [th EXCEPT ![t] = [Idle EXCEPT !.call = c,
                                             !.pc = IF LockKind(c.op) = "none" THEN "first"
                                                    ELSE "acquire"]]
    /\ UNCHANGED <<nodes, edges, other, file, last, ret, pc, mu, hist>>

Lock(t) ==
    /\ Alive
    /\ th[t].pc = "acquire"
    /\ LockKind(th[t].call.op) = "write"
    /\ mu = Unlocked
    /\ mu' = [mu EXCEPT !.writer = t]
    /\ th' = [th EXCEPT ![t].pc = "first", ![t].g0 = Graph(nodes, edges)]
    /\ UNCHANGED <<nodes, edges, other, file, last, ret, pc, hist>>

RLock(t) ==
    /\ Alive
    /\ th[t].pc = "acquire"
    /\ LockKind(th[t].call.op) = "read"
    /\ mu.writer = "none"
    /\ mu' = [mu EXCEPT !.readers = @ \cup {t}]
    /\ th' = [th EXCEPT ![t].pc = "first", ![t].g0 = Graph(nodes, edges)]
    /\ UNCHANGED <<nodes, edges, other, file, last, ret, pc, hist>>

StepFirst(t) ==
    \E order \in Orders(FirstKeys(Graph(nodes, edges), th[t].call)), out \in Outcomes(t) :
        LET r == FirstOp(Graph(nodes, edges), th[t].call, order) IN
        /\ Alive
        /\ th[t].pc = "first"
        /\ nodes' = IF out = "run" THEN r.g.nodes ELSE nodes
        /\ edges' = IF out = "run" THEN r.g.edges ELSE edges
        /\ th' = [th EXCEPT ![t] =
                     IF out = "fatal" THEN [@ EXCEPT !.pc = "crashed"]
                     ELSE [@ EXCEPT !.pc = IF r.fin THEN After(t) ELSE "second",
                                    !.local = r.local, !.ret = r.ret, !.err = r.err]]
        /\ hist' = IF out = "run" /\ r.fin /\ th[t].call.op \in Mutators
                   THEN hist \cup {r.g} ELSE hist
        /\ UNCHANGED <<other, file, last, ret, pc, mu>>

StepSecond(t) ==
    \E ch \in SecondChoices(Graph(nodes, edges), th[t].call), out \in Outcomes(t) :
        LET r == SecondOp(Graph(nodes, edges), th[t].call, th[t].local, ch) IN
        /\ Alive
        /\ th[t].pc = "second"
        /\ nodes' = IF out = "run" THEN r.g.nodes ELSE nodes
        /\ edges' = IF out = "run" THEN r.g.edges ELSE edges
        /\ file' = IF out = "run" /\ th[t].call.op \in {"SaveToFile", "SaveNetworkXJSON"}
                   THEN r.ret ELSE file
        /\ th' = [th EXCEPT ![t] =
                     IF out = "fatal" THEN [@ EXCEPT !.pc = "crashed"]
                     ELSE [@ EXCEPT !.pc = After(t), !.ret = r.ret, !.err = r.err]]
        /\ hist' = IF out = "run" /\ th[t].call.op \in Mutators THEN hist \cup {r.g} ELSE hist
        /\ UNCHANGED <<other, last, ret, pc, mu>>

Unlock(t) ==
    /\ Alive
    /\ th[t].pc = "release"
    /\ LockKind(th[t].call.op) = "write"
    /\ mu' = [mu EXCEPT !.writer = "none"]
    /\ th' = [th EXCEPT ![t].pc = IF th[t].err = Panic THEN "crashed" ELSE "done"]
    /\ UNCHANGED <<nodes, edges, other, file, last, ret, pc, hist>>

RUnlock(t) ==
    /\ Alive
    /\ th[t].pc = "release"
    /\ LockKind(th[t].call.op) = "read"
    /\ mu' = [mu EXCEPT !.readers = @ \ {t}]
    /\ file' = IF th[t].call.op = "SaveGraphsToFile" THEN MultiDoc(th[t].ret) ELSE file
    /\ th' = [th EXCEPT ![t].pc = IF th[t].err = Panic THEN "crashed" ELSE "done"]
    /\ UNCHANGED <<nodes, edges, other, last, ret, pc, hist>>

(***************************************************************************)
(* The calls the goroutines make, and the specifications: two goroutines   *)
(* calling the methods of a Graph that AddNode and AddEdge built; three    *)
(* goroutines adding distinct vertices to an empty Graph and reading it;   *)
(* two goroutines encoding and changing a Graph; and two goroutines under  *)
(* a fair scheduler.                                                       *)
(***************************************************************************)
Workers == {"t1", "t2"}

DataOf(id) == IF id = "A" THEN GoString(1) ELSE GoBool(1)

CallOf(op, id, to, doc) ==
    [op |-> op, id |-> id, to |-> to,
     data |-> IF op = "AddNode" THEN DataOf(id) ELSE GoNil,
     weight |-> IF op = "AddEdge" THEN MaxWeight ELSE 0,
     doc |-> doc]

LoadDoc == NativeDoc(<<JNode("B", JStr(1))>>, EdgeMap({<<"B", "B", MaxWeight>>}))

LoadNXDoc == NXDoc(<<JNode("B", JObj(Obj1("value", JStr(1))))>>, <<Link("B", "B", MaxWeight)>>)

DanglingLoadDoc == NativeDoc(<<>>, EdgeMap({<<"A", "A", MaxWeight>>}))

ConcCalls ==
    {CallOf(op, id, "", NoDoc) : op \in {"AddNode", "RemoveNode", "GetNode", "GetNeighbors"}, id \in Ids}
    \cup {CallOf(op, "A", "B", NoDoc) : op \in {"AddEdge", "RemoveEdge"}}
    \cup {CallOf("LoadFromFile", "", "", LoadDoc), CallOf("LoadNetworkXJSON", "", "", LoadNXDoc),
          CallOf("SaveToFile", "", "", NoDoc), CallOf("SaveNetworkXJSON", "", "", NoDoc)}

NextConc ==
    \/ \E id \in Ids : AddNode(id, DataOf(id))
    \/ \E from \in Ids, to \in Ids : AddEdge(from, to, MaxWeight)
    \/ Start
    \/ \E t \in Workers, c \in ConcCalls : Invoke(t, c)
    \/ \E t \in Workers : Lock(t)
    \/ \E t \in Workers : RLock(t)
    \/ \E t \in Workers : StepFirst(t)
    \/ \E t \in Workers : StepSecond(t)
    \/ \E t \in Workers : Unlock(t)
    \/ \E t \in Workers : RUnlock(t)

SpecConc == Init /\ [][NextConc]_vars

AddReadCalls ==
    {CallOf(op, id, "", NoDoc) : op \in {"AddNode", "GetNode", "GetNeighbors"}, id \in Ids}

InvokeDistinct(t, c) ==
    /\ c.op = "AddNode" => \A u \in Threads : ~(th[u].call.op = "AddNode" /\ th[u].call.id = c.id)
    /\ Invoke(t, c)

NextAddRead ==
    \/ Start
    \/ \E t \in Threads, c \in AddReadCalls : InvokeDistinct(t, c)
    \/ \E t \in Threads : Lock(t)
    \/ \E t \in Threads : RLock(t)
    \/ \E t \in Threads : StepFirst(t)
    \/ \E t \in Threads : StepSecond(t)
    \/ \E t \in Threads : Unlock(t)
    \/ \E t \in Threads : RUnlock(t)

SpecAddRead == Init /\ [][NextAddRead]_vars

EncodeCalls ==
    {CallOf(op, "", "", NoDoc) : op \in Encoders}
    \cup {CallOf(op, id, "", NoDoc) : op \in {"AddNode", "RemoveNode"}, id \in Ids}
    \cup {CallOf("AddEdge", "A", "B", NoDoc)}

NextEncode ==
    \/ \E id \in Ids : AddNode(id, DataOf(id))
    \/ \E from \in Ids, to \in Ids : AddEdge(from, to, MaxWeight)
    \/ Start
    \/ \E t \in Workers, c \in EncodeCalls : Invoke(t, c)
    \/ \E t \in Workers : Lock(t)
    \/ \E t \in Workers : RLock(t)
    \/ \E t \in Workers : StepFirst(t)
    \/ \E t \in Workers : StepSecond(t)
    \/ \E t \in Workers : Unlock(t)
    \/ \E t \in Workers : RUnlock(t)

SpecEncode == Init /\ [][NextEncode]_vars

FairCalls ==
    {CallOf(op, "A", "", NoDoc) : op \in {"AddNode", "RemoveNode", "GetNode", "GetNeighbors"}}
    \cup {CallOf("LoadFromFile", "", "", doc) : doc \in {LoadDoc, DanglingLoadDoc, Absent}}
    \cup {CallOf("SaveToFile", "", "", NoDoc), CallOf("SaveGraphsToFile", "", "", NoDoc)}

ThreadStep(t) ==
    \/ Lock(t)
    \/ RLock(t)
    \/ StepFirst(t)
    \/ StepSecond(t)
    \/ Unlock(t)
    \/ RUnlock(t)

NextFair ==
    \/ Start
    \/ \E t \in Workers, c \in FairCalls : Invoke(t, c)
    \/ \E t \in Workers : ThreadStep(t)

SpecFair == Init /\ [][NextFair]_vars /\ \A t \in Workers : WF_vars(ThreadStep(t))

(***************************************************************************)
(* Native documents whose edge objects carry "from" and "to" fields of     *)
(* their own: LoadFromFile stores the decoded *Edge under the keys of the  *)
(* enclosing objects.                                                      *)
(***************************************************************************)
EdgeKeyDocs ==
    {NativeDoc(ns, [f \in {k[1]} |-> [t \in {k[2]} |-> Edge(k[3], k[4], MaxWeight)]]) :
        ns \in SeqsUpTo(NodeEntries, MaxDocNodes), k \in Ids \X Ids \X Ids \X Ids}

NextEdgeKeys ==
    \/ \E id \in Ids : AddNode(id, DataOf(id))
    \/ \E from \in Ids, to \in Ids : AddEdge(from, to, MaxWeight)
    \/ \E from \in Ids, to \in Ids : RemoveEdge(from, to)
    \/ \E id \in Ids : GetNeighbors(id)
    \/ \E content \in EdgeKeyDocs \cup {Absent} : LoadFromFile(content)

SpecEdgeKeys == Init /\ [][NextEdgeKeys]_vars

(***************************************************************************)
(* GetNode returns the *Node held in g.nodes.  A caller that assigns to a  *)
(* field of the returned node writes the store's node, with no lock held.  *)
(***************************************************************************)
WriteReturnedNode(data) ==
    /\ pc = "build"
    /\ last.op = "GetNode"
    /\ last.err = OK
    /\ nodes' = [nodes EXCEPT ![last.id] = [@ EXCEPT !.Data = data]]
    /\ last' = [Call("node.Data =", last.id, "", OK) EXCEPT !.data = data]
    /\ ret' = <<>>
    /\ UNCHANGED <<edges, other, file, pc, mu, th, hist>>

NextAlias ==
    \/ \E id \in Ids, data \in Data : AddNode(id, data)
    \/ \E id \in Ids : RemoveNode(id)
    \/ \E from \in Ids, to \in Ids : AddEdge(from, to, MaxWeight)
    \/ \E id \in Ids : GetNode(id)
    \/ \E data \in Data : WriteReturnedNode(data)

SpecAlias == Init /\ [][NextAlias]_vars

(***************************************************************************)
(* Three goroutines on an empty Graph, each adding the vertex "A" with its *)
(* own data or reading it.                                                 *)
(***************************************************************************)
DataFor(t) ==
    CASE t = "t1" -> GoString(1)
      [] t = "t2" -> GoBool(1)
      [] OTHER -> GoSlice(1)

SameIdCalls(t) ==
    {[CallOf("AddNode", "A", "", NoDoc) EXCEPT !.data = DataFor(t)],
     CallOf("GetNode", "A", "", NoDoc)}

NextSameId ==
    \/ Start
    \/ \E t \in Threads : \E c \in SameIdCalls(t) : Invoke(t, c)
    \/ \E t \in Threads : Lock(t)
    \/ \E t \in Threads : RLock(t)
    \/ \E t \in Threads : StepFirst(t)
    \/ \E t \in Threads : StepSecond(t)
    \/ \E t \in Threads : Unlock(t)
    \/ \E t \in Threads : RUnlock(t)

SpecSameId == Init /\ [][NextSameId]_vars

(***************************************************************************)
(* Two Graphs built by AddNode and AddEdge, read, converted, and saved one *)
(* by one or together; the saved file is loaded back.                      *)
(***************************************************************************)
BatchSource == "A"

BatchData(id) == IF id = BatchSource THEN GoString(1) ELSE GoMap(NoObj)

BatchNXDocs ==
    {NXDoc(<<JNode(BatchSource, d)>>, <<>>) : d \in {JAbsent, JObj(Obj1("value", JNum(1))), JNum(1)}}
    \cup {NXDoc(<<JNode(BatchSource, JAbsent)>>, <<Link(f, BatchSource, Omitted)>>) : f \in Ids}

BatchDocs == {CollectionDoc(ds) : ds \in SeqsUpTo(BatchNXDocs, MaxGraphs)}

NextBatch ==
    \/ \E id \in Ids : AddNode(id, BatchData(id))
    \/ \E to \in Ids, weight \in Weights : AddEdge(BatchSource, to, weight)
    \/ OtherAddNode(BatchSource, BatchData(BatchSource))
    \/ \E id \in Ids : GetNode(id)
    \/ \E id \in Ids : GetNeighbors(id)
    \/ \E ref \in Refs : ConvertToNetworkX(ref)
    \/ \E writable \in BOOLEAN : SaveToFile(writable)
    \/ \E writable \in BOOLEAN : SaveNetworkXJSON(writable)
    \/ \E refs \in SeqsUpTo(Refs, MaxGraphs), writable \in BOOLEAN : SaveGraphsToFile(refs, writable)
    \/ \E content \in BatchDocs \cup {Absent, Invalid} : LoadGraphsFromFile(content)
    \/ LoadSavedGraphs
    \/ OtherLoadNetworkXJSON

SpecBatch == Init /\ [][NextBatch]_vars

(***************************************************************************)
(* Properties.                                                             *)
(***************************************************************************)
G == Graph(nodes, edges)

Post == Graph(nodes', edges')

Stored(g) == {<<f, t>> \in Ids \X Ids : HasEdge(g, f, t)}

Loads == {"LoadFromFile", "LoadNetworkXJSON"}

(* C1: every edge held in the adjacency table has its source id and its    *)
(* target id in the vertex table, in every state reachable by AddNode,     *)
(* RemoveNode, AddEdge, RemoveEdge, LoadFromFile and LoadNetworkXJSON.     *)
NoDanglingEdges ==
    \A f \in DOMAIN edges : \A t \in DOMAIN edges[f] :
        /\ f \in DOMAIN nodes /\ t \in DOMAIN nodes
        /\ edges[f][t].From \in DOMAIN nodes /\ edges[f][t].To \in DOMAIN nodes

(* C2: after every operation, failed ones and aborted loads included, the  *)
(* keys of the adjacency table are exactly the ids of the vertex table.    *)
TableAgreement == DOMAIN edges = DOMAIN nodes

TableAgreementWitness ==
    /\ last.op \in Loads /\ last.err = Panic
    /\ DOMAIN nodes # {}

(* C3: a successful RemoveNode(id) of an existing vertex leaves id without *)
(* vertex and without outgoing-edge set, leaves no edge keyed by target id *)
(* in any other outgoing set, so that no GetNeighbors result contains id,  *)
(* and keeps every other vertex and every edge not mentioning id.          *)
CascadeDelete ==
    [][(last'.op = "RemoveNode" /\ last'.err = OK) =>
        LET id == last'.id IN
        /\ id \in DOMAIN nodes
        /\ GetNodeOp(Post, id).err = ErrNodeMissing
        /\ id \notin DOMAIN edges'
        /\ \A f \in DOMAIN edges' : id \notin DOMAIN edges'[f]
        /\ \A f \in DOMAIN nodes' : \A order \in Orders(OutKeys(Post, f)) :
              \A i \in 1..Len(order) : GetNeighborsOp(Post, f, order).ret[i].ID # id
        /\ nodes' = [n \in (DOMAIN nodes) \ {id} |-> nodes[n]]
        /\ DOMAIN edges' = (DOMAIN edges) \ {id}
        /\ \A f \in DOMAIN edges' :
              /\ DOMAIN edges'[f] = (DOMAIN edges[f]) \ {id}
              /\ \A t \in DOMAIN edges'[f] : edges'[f][t] = edges[f][t]]_vars

CascadeDeleteWitness ==
    /\ last.op = "RemoveNode" /\ last.err = OK
    /\ \E f \in DOMAIN nodes : HasEdge(G, f, f)

(* C4: AddNode of an id the store already holds fails with the duplicate   *)
(* error and changes neither table: the vertex keeps its data and its      *)
(* outgoing edges.                                                         *)
DuplicateRejection ==
    [][(last'.op = "AddNode" /\ last'.id \in DOMAIN nodes) =>
        /\ last'.err = ErrNodeExists
        /\ nodes' = nodes
        /\ edges' = edges]_vars

DuplicateRejectionWitness ==
    /\ last.op = "AddNode" /\ last.err = ErrNodeExists
    /\ nodes[last.id].Data # last.data
    /\ OutKeys(G, last.id) # {}

(* C5: AddEdge with a missing endpoint fails, naming the source when from  *)
(* is missing (also when both are) and the destination when only to is     *)
(* missing, and changes neither table.                                     *)
AddEdgeMissingEndpoint ==
    [][(last'.op = "AddEdge" /\ (last'.id \notin DOMAIN nodes \/ last'.to \notin DOMAIN nodes)) =>
        /\ last'.err = IF last'.id \notin DOMAIN nodes THEN ErrSourceMissing ELSE ErrDestMissing
        /\ nodes' = nodes
        /\ edges' = edges]_vars

AddEdgeMissingEndpointWitness ==
    /\ last.op = "AddEdge" /\ last.err = ErrSourceMissing
    /\ last.id \notin DOMAIN nodes /\ last.to \notin DOMAIN nodes
    /\ last.id # last.to

(* C6: AddEdge(A, B, w2) right after a successful AddEdge(A, B, w1) on     *)
(* existing vertices succeeds too, leaves one edge for the pair (A, B),    *)
(* of weight w2, and does not change A's set of targets.                   *)
EdgeUpsert ==
    [][(/\ last.op = "AddEdge" /\ last.err = OK
        /\ last'.op = "AddEdge" /\ last'.id = last.id /\ last'.to = last.to) =>
        /\ last'.err = OK
        /\ edges'[last'.id][last'.to] = Edge(last'.id, last'.to, last'.weight)
        /\ Stored(Post) = Stored(G)
        /\ \A e \in Stored(G) \ {<<last'.id, last'.to>>} : edges'[e[1]][e[2]] = edges[e[1]][e[2]]
        /\ nodes' = nodes]_vars

EdgeUpsertWitness ==
    /\ last.op = "AddEdge" /\ last.err = OK
    /\ edges[last.id][last.to].Weight = last.weight
    /\ last.weight = MaxWeight
    /\ Cardinality(OutKeys(G, last.id)) > 1

(* C7: RemoveEdge(from, to) fails with the missing-edge error, without a   *)
(* panic and without changing the store, whenever no edge is stored for    *)
(* the ordered pair: from not a vertex, to not a vertex, or only the       *)
(* reverse edge present.                                                   *)
RemoveEdgeMissing ==
    [][(last'.op = "RemoveEdge" /\ ~HasEdge(G, last'.id, last'.to)) =>
        /\ last'.err = ErrEdgeMissing
        /\ nodes' = nodes
        /\ edges' = edges]_vars

RemoveEdgeMissingWitness ==
    /\ last.op = "RemoveEdge" /\ last.err = ErrEdgeMissing
    /\ last.id # last.to
    /\ HasEdge(G, last.to, last.id)

(* C8: GetNeighbors fails when id is absent; otherwise it returns one      *)
(* entry per outgoing edge of id, and every entry is a vertex of the store *)
(* (never nil) whose id is the target of one of those edges.               *)
NeighborsAreVertices ==
    last.op = "GetNeighbors" =>
        IF last.id \notin DOMAIN nodes THEN last.err = ErrNodeMissing
        ELSE /\ last.err = OK
             /\ Len(ret) = Cardinality(OutKeys(G, last.id))
             /\ \A i \in 1..Len(ret) :
                   /\ ret[i] # NilNode
                   /\ ret[i].ID \in OutKeys(G, last.id)
                   /\ ret[i].ID \in DOMAIN nodes /\ ret[i] = nodes[ret[i].ID]
             /\ {ret[i].ID : i \in 1..Len(ret)} = OutKeys(G, last.id)

(* C9: for every store built by AddNode, AddEdge, RemoveNode and           *)
(* RemoveEdge, SaveToFile succeeds and LoadFromFile of the saved file into *)
(* another store yields the same vertices (data compared as JSON) and the  *)
(* same edges.                                                             *)
SameGraph(g, h) ==
    /\ DOMAIN g.nodes = DOMAIN h.nodes
    /\ \A id \in DOMAIN g.nodes :
          /\ g.nodes[id].ID = h.nodes[id].ID
          /\ EncodeValue(g.nodes[id].Data) = EncodeValue(h.nodes[id].Data)
    /\ g.edges = h.edges

NativeRoundTrip ==
    /\ pc = "saved" => last.err = OK
    /\ pc = "loaded" => (last.err = OK /\ SameGraph(other, G))

(* C10: a load that fails because the file cannot be opened or decoded     *)
(* leaves both tables as they were.                                        *)
FailedLoadUntouched ==
    [][(last'.op \in Loads /\ last'.err \in {ErrOpen, ErrDecode, ErrDecodeNX}) =>
        /\ nodes' = nodes
        /\ edges' = edges]_vars

FailedLoadUntouchedWitness ==
    /\ last.op = "LoadFromFile" /\ last.err = ErrDecode
    /\ Stored(G) # {}

(* C11: after a successful LoadFromFile or LoadNetworkXJSON the vertices   *)
(* are exactly the ids of the document's node list and the edges exactly   *)
(* the document's edges; nothing the store held before remains.            *)
DocIds(doc) == {doc.nodes[i].id : i \in 1..Len(doc.nodes)}

DocEdges(doc) ==
    IF doc.kind = "native"
    THEN UNION {{<<f, t, doc.edges[f][t].Weight>> : t \in DOMAIN doc.edges[f]} : f \in DOMAIN doc.edges}
    ELSE {<<doc.links[i].source, doc.links[i].target, doc.links[i].weight>> : i \in 1..Len(doc.links)}

DocPairs(doc) == {<<e[1], e[2]>> : e \in DocEdges(doc)}

FullReplace ==
    (last.op \in Loads /\ last.err = OK) =>
        /\ DOMAIN nodes = DocIds(last.doc)
        /\ DOMAIN edges = DOMAIN nodes
        /\ \A id \in DOMAIN nodes :
              /\ nodes[id].ID = id
              /\ last.doc.kind = "native" =>
                    \E i \in 1..Len(last.doc.nodes) :
                        /\ last.doc.nodes[i].id = id
                        /\ last.doc.nodes[i].data = EncodeValue(nodes[id].Data)
        /\ Stored(G) = DocPairs(last.doc)
        /\ \A e \in Stored(G) : <<e[1], e[2], edges[e[1]][e[2]].Weight>> \in DocEdges(last.doc)

FullReplaceWitness ==
    /\ last.op = "LoadFromFile" /\ last.err = OK
    /\ DOMAIN nodes # {}
    /\ Stored(G) # {}

(* C12: a load of a well-formed document in which an edge names a source   *)
(* or target missing from the node list either returns the decode error    *)
(* with the store untouched or succeeds with that edge stored; it never    *)
(* aborts mid-load.                                                        *)
DanglingDoc(doc) ==
    /\ doc.kind \in {"native", "nx"}
    /\ NullAt(doc.nodes) = {}
    /\ \E e \in DocPairs(doc) : e[1] \notin DocIds(doc) \/ e[2] \notin DocIds(doc)

DanglingLoadRejectedOrAccepted ==
    [][(last'.op \in Loads /\ DanglingDoc(last'.doc)) =>
        \/ /\ last'.err \in {ErrDecode, ErrDecodeNX}
           /\ nodes' = nodes
           /\ edges' = edges
        \/ /\ last'.err = OK
           /\ Stored(Post) = DocPairs(last'.doc)]_vars


(***************************************************************************)
(* C13  Writer exclusivity: from its first access to the tables to its     *)
(* unlock a mutating call holds the write lock, no other call is between   *)
(* its own lock and unlock, the tables are as the call found them until    *)
(* its first write, and at the unlock they are what the call makes of them *)
(* in one step.                                                            *)
(***************************************************************************)
InCS(t) == th[t].pc \in {"first", "second", "release"}

AtomicResults(g, c) ==
    CASE c.op = "AddNode" -> {AddNodeOp(g, c.id, c.data).g}
      [] c.op = "RemoveNode" -> {RemoveNodeOp(g, c.id).g}
      [] c.op = "AddEdge" -> {AddEdgeOp(g, c.id, c.to, c.weight).g}
      [] c.op = "RemoveEdge" -> {RemoveEdgeOp(g, c.id, c.to).g}
      [] c.op = "LoadFromFile" -> {LoadFromFileOp(g, c.doc, d).g : d \in DoneChoices(c.doc)}
      [] c.op = "LoadNetworkXJSON" -> {LoadNetworkXJSONOp(g, c.doc).g}
      [] OTHER -> {g}

ReadResults(g, c) ==
    CASE c.op = "GetNode" -> {GetNodeOp(g, c.id)}
      [] c.op = "GetNeighbors" -> {GetNeighborsOp(g, c.id, o) : o \in Orders(OutKeys(g, c.id))}
      [] OTHER -> {[ret |-> SaveToFileOp(g, NoDoc, TRUE, o).file,
                    err |-> SaveToFileOp(g, NoDoc, TRUE, o).err] : o \in Orders(DOMAIN g.nodes)}

ConsistentObservation ==
    \A t \in Threads :
        (th[t].call.op \in Readers /\ th[t].pc \in {"release", "done"}) =>
            \E g \in hist : [ret |-> th[t].ret, err |-> th[t].err] \in ReadResults(g, th[t].call)

ConsistentObservationWitness ==
    \E t \in Threads, u \in Threads :
        /\ th[t].call.op = "GetNeighbors" /\ th[t].pc = "release"
        /\ th[u].call.op = "RemoveNode" /\ th[u].pc = "acquire"
        /\ \E i \in 1..Len(th[t].ret) : th[t].ret[i].ID = th[u].call.id

(***************************************************************************)
(* C15  Concurrent AddNode calls with distinct ids beside GetNode and      *)
(* GetNeighbors calls on an empty store: the program does not crash, every *)
(* AddNode returns nil, and once all calls have returned the store holds   *)
(* exactly the added vertices, each with its data.                         *)
(***************************************************************************)
Adding == {t \in Threads : th[t].call.op = "AddNode"}

NoLostInsertion ==
    /\ Alive
    /\ \A t \in Adding : th[t].pc \in {"release", "done"} => th[t].err = OK
    /\ \A t \in Threads : th[t].err # Panic
    /\ (pc = "run" /\ \A t \in Threads : th[t].pc \in {"idle", "done"}) =>
          /\ DOMAIN nodes = {th[t].call.id : t \in Adding}
          /\ \A t \in Adding : nodes[th[t].call.id] = Node(th[t].call.id, th[t].call.data)
          /\ DOMAIN edges = DOMAIN nodes

NoLostInsertionWitness ==
    /\ \A t \in Threads : th[t].pc = "done"
    /\ Cardinality(Adding) = Cardinality(Ids)
    /\ \E t \in Threads : th[t].call.op = "GetNeighbors" /\ th[t].err = OK

(***************************************************************************)
(* C16  SaveNetworkXJSON, ConvertToNetworkX and SaveGraphsToFile read the  *)
(* tables only while the goroutine holds the read lock and no goroutine    *)
(* holds the write lock.                                                   *)
(***************************************************************************)
EncodeUnderReadLock ==
    \A t \in Threads :
        (th[t].call.op \in Encoders /\ th[t].pc \in {"first", "second"}) =>
            /\ t \in mu.readers
            /\ mu.writer = "none"

(***************************************************************************)
(* C17  Under a fair scheduler every call that was made returns.           *)
(***************************************************************************)
EveryCallReturns == \A t \in Workers : (th[t].pc # "idle") ~> (th[t].pc = "done")

(***************************************************************************)
(* C18  Interop wrap/unwrap: a vertex whose data is not an object is       *)
(* written by SaveNetworkXJSON with data {"value": data}, and loading the  *)
(* written document gives a vertex whose data is the original value (as    *)
(* JSON), not the wrapper object.                                          *)
(***************************************************************************)
NonObject(d) == d.kind \in {"nil", "int", "float64", "string", "bool", "slice"}

WrapUnwrap ==
    /\ (last.op = "SaveNetworkXJSON" /\ last.err = OK) =>
          \A id \in DOMAIN nodes :
              NonObject(nodes[id].Data) =>
                  \E i \in 1..Len(file.nodes) :
                      /\ file.nodes[i].id = id
                      /\ file.nodes[i].data = JObj(Obj1("value", EncodeValue(nodes[id].Data)))
    /\ (last.op = "other.LoadNetworkXJSON" /\ last.err = OK) =>
          \A id \in DOMAIN nodes :
              NonObject(nodes[id].Data) =>
                  /\ id \in DOMAIN other.nodes
                  /\ NonObject(other.nodes[id].Data)
                  /\ EncodeValue(other.nodes[id].Data) = EncodeValue(nodes[id].Data)

WrapUnwrapWitness ==
    /\ last.op = "other.LoadNetworkXJSON"
    /\ last.err = OK
    /\ \E id \in DOMAIN nodes : nodes[id].Data = GoNil
    /\ \E id \in DOMAIN nodes : nodes[id].Data.kind = "int"

(***************************************************************************)
(* C19  LoadNetworkXJSON unwraps a node's data exactly when the data       *)
(* object has the single key "value"; a data object with any other         *)
(* non-empty key set is stored as the vertex data unchanged.               *)
(***************************************************************************)
NXLoads == {"LoadNetworkXJSON", "other.LoadNetworkXJSON"}

Loaded == IF last.op = "LoadNetworkXJSON" THEN G ELSE other

EntryOf(doc, id) ==
    doc.nodes[CHOOSE i \in 1..Len(doc.nodes) :
                  /\ doc.nodes[i].id = id
                  /\ \A j \in (i + 1)..Len(doc.nodes) : doc.nodes[j].id # id]

UnwrapOnlyValue ==
    (last.op \in NXLoads /\ last.err = OK) =>
        \A id \in DocIds(last.doc) :
            LET d == EntryOf(last.doc, id).data IN
            (d.type = "object" /\ DOMAIN d.obj # {}) =>
                /\ id \in DOMAIN Loaded.nodes
                /\ Loaded.nodes[id].Data =
                       IF DOMAIN d.obj = {"value"} THEN DecodeValue(d.obj["value"])
                       ELSE DecodeValue(d)

UnwrapOnlyValueWitness ==
    /\ last.op = "other.LoadNetworkXJSON"
    /\ last.err = OK
    /\ \E id \in DocIds(last.doc) : DOMAIN EntryOf(last.doc, id).data.obj = {"value"}
    /\ \E id \in DocIds(last.doc) : DOMAIN EntryOf(last.doc, id).data.obj = {"value", "name"}

(***************************************************************************)
(* C20  Every node entry of a document written by SaveNetworkXJSON carries *)
(* a data field that is an object, whatever the vertex data.               *)
(***************************************************************************)
DataAlwaysObject ==
    (last.op = "SaveNetworkXJSON" /\ last.err = OK) =>
        \A i \in 1..Len(file.nodes) : file.nodes[i].data.type = "object"

(***************************************************************************)
(* C24  A successful AddNode(id, data) adds the vertex id with the data    *)
(* and an empty outgoing-edge set for id and changes nothing else; the new *)
(* vertex has no outgoing and no incoming edge.                            *)
(***************************************************************************)
AddNodeFresh ==
    [][(last'.op = "AddNode" /\ last'.err = OK) =>
        /\ nodes' = MapPut(nodes, last'.id, Node(last'.id, last'.data))
        /\ edges' = MapPut(edges, last'.id, EmptyMap)
        /\ OutKeys(Post, last'.id) = {}
        /\ \A f \in DOMAIN edges' : last'.id \notin DOMAIN edges'[f]]_vars

(***************************************************************************)
(* C25  A successful RemoveEdge(from, to) removes the edge of the ordered  *)
(* pair (from, to) and nothing else: the vertex table, the reverse edge    *)
(* and every other edge stay, and RemoveEdge(from, to) again fails with    *)
(* the missing-edge error.                                                 *)
(***************************************************************************)
RemoveEdgeFrame ==
    [][(last'.op = "RemoveEdge" /\ last'.err = OK) =>
        /\ HasEdge(G, last'.id, last'.to)
        /\ nodes' = nodes
        /\ Stored(Post) = Stored(G) \ {<<last'.id, last'.to>>}
        /\ \A e \in Stored(Post) : edges'[e[1]][e[2]] = edges[e[1]][e[2]]
        /\ DOMAIN edges' = DOMAIN edges
        /\ RemoveEdgeOp(Post, last'.id, last'.to).err = ErrEdgeMissing
        /\ RemoveEdgeOp(Post, last'.id, last'.to).g = Post]_vars

RemoveEdgeFrameWitness ==
    /\ last.op = "RemoveEdge" /\ last.err = OK
    /\ last.id # last.to
    /\ HasEdge(G, last.to, last.id)
    /\ HasEdge(G, last.id, last.id)

(***************************************************************************)
(* C28  Edge key consistency: the edge stored in the adjacency table under *)
(* outer key f and inner key t has From = f and To = t.                    *)
(***************************************************************************)
EdgeKeyConsistency ==
    \A f \in DOMAIN edges : \A t \in DOMAIN edges[f] :
        edges[f][t].From = f /\ edges[f][t].To = t

(***************************************************************************)
(* C23  GetNode returns a read-only view or a copy: a caller's assignment  *)
(* to the data of the returned vertex leaves the vertex held by the store  *)
(* as it was.                                                              *)
(***************************************************************************)
ReturnedNodeIsCopy ==
    [][(last'.op = "node.Data =") => nodes' = nodes]_vars

(***************************************************************************)
(* C29  Of the concurrent AddNode calls for one id on a store without that *)
(* id, exactly one returns nil and the others return the duplicate error;  *)
(* the vertex stored has the data of the call that returned nil.           *)
(***************************************************************************)
Returned(t) == th[t].pc \in {"release", "done"}

OneWinner ==
    /\ Alive
    /\ Cardinality({t \in Adding : Returned(t) /\ th[t].err = OK}) <= 1
    /\ \A t \in Adding : Returned(t) => th[t].err \in {OK, ErrNodeExists}
    /\ (Adding # {} /\ \A t \in Adding : Returned(t)) =>
          \E w \in Adding :
              /\ th[w].err = OK
              /\ \A t \in Adding \ {w} : th[t].err = ErrNodeExists
              /\ nodes = [id \in {th[w].call.id} |-> Node(id, th[w].call.data)]
              /\ DOMAIN edges = DOMAIN nodes

OneWinnerWitness ==
    /\ Adding = Threads
    /\ \A t \in Threads : th[t].pc = "done"
    /\ nodes["A"].Data = DataFor("t2")

(***************************************************************************)
(* C21: SaveGraphsToFile given a nil graph at any index fails the whole    *)
(* call with the nil-graph error, creates and writes no file, changes no   *)
(* store and leaves no lock held.                                          *)
(***************************************************************************)
HasNil(refs) == \E i \in 1..Len(refs) : refs[i] = "nil"

NilGraphRejected ==
    [][(last'.op = "SaveGraphsToFile" /\ pc = "build" /\ HasNil(last'.graphs)) =>
          /\ last'.err = ErrNilGraph
          /\ file' = file
          /\ nodes' = nodes /\ edges' = edges /\ other' = other
          /\ mu' = Unlocked]_vars

NilGraphRejectedWitness ==
    /\ last.op = "SaveGraphsToFile" /\ last.graphs = <<"g", "nil">>
    /\ last.err = ErrNilGraph
    /\ DOMAIN nodes # {} /\ EdgeKeys(Graph(nodes, edges)) # {}
    /\ file = Absent

(***************************************************************************)
(* C26: the batch operations apply the single-graph transform per graph:   *)
(* ConvertToNetworkX yields a structure SaveNetworkXJSON can build for the *)
(* same store (same nodes, links, directed, multigraph, empty metadata),   *)
(* each document SaveGraphsToFile writes is one SaveNetworkXJSON can       *)
(* write, and each store LoadGraphsFromFile builds is the store            *)
(* LoadNetworkXJSON produces from that document.                           *)
(***************************************************************************)
RefGraph(ref) == PtrOf(ref).g

SingleLoads(doc) == [i \in 1..Len(doc.graphs) |-> LoadNetworkXJSONOp(New, doc.graphs[i])]

SameTransform ==
    /\ (last.op = "ConvertToNetworkX" /\ last.err = OK) =>
           \E norder \in Orders(DOMAIN RefGraph(last.id).nodes),
              lorder \in Orders(EdgeKeys(RefGraph(last.id))) :
               ret = BuildNX(RefGraph(last.id), norder, lorder)
    /\ (last.op = "SaveGraphsToFile" /\ last.err = OK) =>
           /\ file.kind = "collection"
           /\ Len(file.graphs) = Len(last.graphs)
           /\ \A i \in 1..Len(last.graphs) :
                  \E norder \in Orders(DOMAIN RefGraph(last.graphs[i]).nodes),
                     lorder \in Orders(EdgeKeys(RefGraph(last.graphs[i]))) :
                      file.graphs[i] =
                          SaveNetworkXJSONOp(RefGraph(last.graphs[i]), Absent, TRUE, norder, lorder).file
    /\ (last.op = "LoadGraphsFromFile" /\ last.doc.kind = "collection") =>
           /\ last.err = OK <=> \A i \in 1..Len(last.doc.graphs) : SingleLoads(last.doc)[i].err = OK
           /\ last.err = Panic <=>
                  /\ \E i \in 1..Len(last.doc.graphs) : SingleLoads(last.doc)[i].err = Panic
                  /\ \A i \in 1..Len(last.doc.graphs) : SingleLoads(last.doc)[i].err \in {OK, Panic}
           /\ last.err = OK =>
                  ret = [i \in 1..Len(last.doc.graphs) |-> SingleLoads(last.doc)[i].g]

SameTransformWitness ==
    /\ last.op = "LoadGraphsFromFile" /\ last.err = OK
    /\ last.doc.kind = "collection" /\ Len(ret) = 1
    /\ \E id \in DOMAIN ret[1].nodes :
           /\ last.doc.graphs[1].nodes[1].data = JObj(Obj1("value", JNum(1)))
           /\ ret[1].nodes[id].Data = GoFloat(1)

(***************************************************************************)
(* C22: for a sequence of non-nil stores and a writable path,              *)
(* SaveGraphsToFile succeeds and LoadGraphsFromFile of the file returns a  *)
(* sequence of the same length whose i-th store has the vertex ids and the *)
(* edges (source, target, weight) of the i-th input store.                 *)
(***************************************************************************)
BatchRoundTrip ==
    [][(/\ pc = "saved" /\ last.op = "SaveGraphsToFile"
        /\ ~HasNil(last.graphs) /\ last.err # ErrCreate
        /\ last'.op = "LoadGraphsFromFile") =>
          /\ last.err = OK /\ last'.err = OK
          /\ Len(ret') = Len(last.graphs)
          /\ \A i \in 1..Len(last.graphs) :
                 /\ DOMAIN ret'[i].nodes = DOMAIN RefGraph(last.graphs[i]).nodes
                 /\ ret'[i].edges = RefGraph(last.graphs[i]).edges]_vars

(***************************************************************************)
(* C27: GetNode, GetNeighbors, SaveToFile, SaveNetworkXJSON,               *)
(* ConvertToNetworkX and SaveGraphsToFile leave the vertex table and the   *)
(* adjacency table of every store unchanged, whether they succeed or fail  *)
(* (a save that cannot create or encode its file included).                *)
(***************************************************************************)
ReadOps ==
    {"GetNode", "GetNeighbors", "SaveToFile", "SaveNetworkXJSON", "ConvertToNetworkX",
     "SaveGraphsToFile"}

ReadsArePure ==
    [][last'.op \in ReadOps => (nodes' = nodes /\ edges' = edges /\ other' = other)]_vars

ReadsArePureWitness ==
    /\ last.op = "SaveNetworkXJSON" /\ last.err \in {ErrCreate, ErrEncodeNX}
    /\ DOMAIN nodes = Ids /\ EdgeKeys(Graph(nodes, edges)) # {}
    /\ DOMAIN other.nodes # {}

(***************************************************************************)
(* C30: for a store built by AddNode and AddEdge and a writable path,      *)
(* SaveNetworkXJSON succeeds and LoadNetworkXJSON of the file into a       *)
(* second store yields the same vertex ids, the same edges (source,        *)
(* target, weight, weight 0 included) and, for every vertex whose data is  *)
(* not an object with the single key "value", the same data.               *)
(***************************************************************************)
SingleValueObject(d) == d.kind = "map" /\ DOMAIN d.obj = {"value"}

InteropRoundTrip ==
    [][(/\ pc = "saved" /\ last.op = "SaveNetworkXJSON" /\ last.err # ErrCreate
        /\ last'.op = "other.LoadNetworkXJSON") =>
          /\ last.err = OK /\ last'.err = OK
          /\ DOMAIN other'.nodes = DOMAIN nodes
          /\ other'.edges = edges
          /\ \A id \in DOMAIN nodes :
                 ~SingleValueObject(nodes[id].Data) =>
                     EncodeValue(other'.nodes[id].Data) = EncodeValue(nodes[id].Data)]_vars

====
